---- MODULE Spec2Model ----
(***************************************************************************)
(* The countdown component of src/src/Countdown.vue as a state machine.    *)
(*                                                                         *)
(* Time is counted in abstract units.  clock is the reading of the `now`   *)
(* prop; a frame callback receives the timestamp clock + 1, the host's     *)
(* timestamps being counted from a time origin that precedes the           *)
(* component, so that a timestamp is never 0 (the value the step closure   *)
(* treats as "not set").  The host runs frame callbacks at strictly        *)
(* increasing timestamps.                                                  *)
(***************************************************************************)
EXTENDS Integers, Sequences, FiniteSets, TLC

VARIABLES
    time,             \* prop time (destructured once in setup, line 78)
    interval,         \* prop interval
    autoStart,        \* prop autoStart
    emitEvents,       \* prop emitEvents
    data,             \* the reactive state of lines 80-85
    frames,           \* the host's pending animation frame callbacks
    nextId,           \* the handle the next requestAnimationFrame returns
    visibilityState,  \* document.visibilityState
    phase,            \* "created", "configured", "mounted", "unmounted"
    clock,            \* the current time
    framed,           \* a frame callback has run at the current time
    events,           \* the events emitted so far
    slot,             \* the slot props bound by the template (line 2)
    disturbed,        \* history: abort(), end(), a visibility change or unmount happened
    resynced          \* history: the value the last update() call left

props == <<time, interval, autoStart, emitEvents>>
host == <<frames, nextId>>
vars == <<time, interval, autoStart, emitEvents, data, frames, nextId,
          visibilityState, phase, clock, framed, events, slot,
          disturbed, resynced>>

\* ----------------------------------------------------------------- bounds
MaxTime == 4
MaxInterval == 3
MaxClock == 6
MaxRequests == 6
MaxEvents == 5

\* ---------------------------------------------------------------- helpers
Min(a, b) == IF a <= b THEN a ELSE b
Max(a, b) == IF a >= b THEN a ELSE b

validator(value) == value >= 0

now == clock

frameTimestamp == clock + 1

\* The part of the state the engine's functions read and write.
Engine == [data |-> data, frames |-> frames, nextId |-> nextId, events |-> events]

emit(s, name) == [s EXCEPT !.events = Append(@, <<name>>)]

emitProgress(s) ==
    [s EXCEPT !.events = Append(@, <<"progress", s.data.totalMilliseconds>>)]

\* requestAnimationFrame(step) with the closure of step, and the assignment
\* of the returned handle to data.requestId.
requestAnimationFrame(s, delay, init, prev) ==
    [s EXCEPT !.frames = @ \cup {[id |-> s.nextId, delay |-> delay,
                                   init |-> init, prev |-> prev]},
              !.nextId = @ + 1,
              !.data.requestId = s.nextId]

cancelAnimationFrame(s, id) ==
    [s EXCEPT !.frames = {f \in @ : f.id # id}]

pause_cancelsNothing(s) == s

pause(s) == cancelAnimationFrame(s, s.data.requestId)

end_keepsRemaining(s) ==
    IF ~s.data.counting THEN s
    ELSE LET s1 == pause(s)
             s2 == [s1 EXCEPT !.data.counting = FALSE]
         IN  IF emitEvents THEN emit(s2, "end") ELSE s2

end(s) ==
    IF ~s.data.counting THEN s
    ELSE LET s1 == pause(s)
             s2 == [s1 EXCEPT !.data.totalMilliseconds = 0,
                              !.data.counting = FALSE]
         IN  IF emitEvents THEN emit(s2, "end") ELSE s2

continuance_zeroDelay(s) ==
    IF ~s.data.counting THEN s
    ELSE LET delay == Min(s.data.totalMilliseconds, interval)
         IN  IF delay >= 0
             THEN requestAnimationFrame(s, delay, 0, 0)
             ELSE end(s)

continuance(s) ==
    IF ~s.data.counting THEN s
    ELSE LET delay == Min(s.data.totalMilliseconds, interval)
         IN  IF delay > 0
             THEN requestAnimationFrame(s, delay, 0, 0)
             ELSE end(s)

progress_emitsAtZero(s) ==
    IF ~s.data.counting THEN s
    ELSE LET s1 == [s EXCEPT !.data.totalMilliseconds = @ - interval]
             s2 == IF emitEvents /\ s1.data.totalMilliseconds >= 0
                   THEN emitProgress(s1) ELSE s1
         IN  continuance(s2)

progress_emitsAlways(s) ==
    IF ~s.data.counting THEN s
    ELSE LET s1 == [s EXCEPT !.data.totalMilliseconds = @ - interval]
             s2 == IF emitEvents THEN emitProgress(s1) ELSE s1
         IN  continuance(s2)

progress_emitsFirst(s) ==
    IF ~s.data.counting THEN s
    ELSE LET s1 == IF emitEvents /\ s.data.totalMilliseconds - interval > 0
                   THEN emitProgress(s) ELSE s
             s2 == [s1 EXCEPT !.data.totalMilliseconds = @ - interval]
         IN  continuance(s2)

progress_noReschedule(s) ==
    IF ~s.data.counting THEN s
    ELSE LET s1 == [s EXCEPT !.data.totalMilliseconds = @ - interval]
         IN  IF emitEvents /\ s1.data.totalMilliseconds > 0
             THEN emitProgress(s1) ELSE s1

progress(s) ==
    IF ~s.data.counting THEN s
    ELSE LET s1 == [s EXCEPT !.data.totalMilliseconds = @ - interval]
             s2 == IF emitEvents /\ s1.data.totalMilliseconds > 0
                   THEN emitProgress(s1) ELSE s1
         IN  continuance(s2)

start_ignoresVisibility(s) ==
    IF s.data.counting THEN s
    ELSE LET s1 == [s EXCEPT !.data.counting = TRUE]
             s2 == IF emitEvents THEN emit(s1, "start") ELSE s1
         IN  continuance(s2)

start_unguarded(s) ==
    LET s1 == [s EXCEPT !.data.counting = TRUE]
        s2 == IF emitEvents THEN emit(s1, "start") ELSE s1
    IN  IF visibilityState = "visible" THEN continuance(s2) ELSE s2

start(s) ==
    IF s.data.counting THEN s
    ELSE LET s1 == [s EXCEPT !.data.counting = TRUE]
             s2 == IF emitEvents THEN emit(s1, "start") ELSE s1
         IN  IF visibilityState = "visible" THEN continuance(s2) ELSE s2

abort_unguarded(s) ==
    LET s1 == pause(s)
        s2 == [s1 EXCEPT !.data.counting = FALSE]
    IN  IF emitEvents THEN emit(s2, "abort") ELSE s2

abort_zeroes(s) ==
    IF ~s.data.counting THEN s
    ELSE LET s1 == pause(s)
             s2 == [s1 EXCEPT !.data.totalMilliseconds = 0,
                              !.data.counting = FALSE]
         IN  IF emitEvents THEN emit(s2, "abort") ELSE s2

abort_withoutPause(s) ==
    IF ~s.data.counting THEN s
    ELSE LET s2 == [s EXCEPT !.data.counting = FALSE]
         IN  IF emitEvents THEN emit(s2, "abort") ELSE s2

abort(s) ==
    IF ~s.data.counting THEN s
    ELSE LET s1 == pause(s)
             s2 == [s1 EXCEPT !.data.counting = FALSE]
         IN  IF emitEvents THEN emit(s2, "abort") ELSE s2

update_unclamped(s) ==
    IF s.data.counting
    THEN [s EXCEPT !.data.totalMilliseconds = s.data.endTime - now]
    ELSE s

update(s) ==
    IF s.data.counting
    THEN [s EXCEPT !.data.totalMilliseconds = Max(0, s.data.endTime - now)]
    ELSE s

fires_noLookahead(range, gap, delay) == range >= delay

\* The condition of lines 170-175, with range + gap / 2 >= delay doubled.
fires(range, gap, delay) ==
    \/ range >= delay
    \/ 2 * range + gap >= 2 * delay

\* The frame callback f running at time _now; 0 is the closure's unset value.
step(s, f, _now) ==
    LET init  == IF f.init = 0 THEN _now ELSE f.init
        prev  == IF f.prev = 0 THEN _now ELSE f.prev
        range == _now - init
        s0    == [s EXCEPT !.frames = @ \ {f}]
    IN  IF fires(range, _now - prev, f.delay)
        THEN progress(s0)
        ELSE requestAnimationFrame(s0, f.delay, init, _now)

\* --------------------------------------------------------- the breakdown
MILLISECONDS_SECOND == 1000
MILLISECONDS_MINUTE == 60 * MILLISECONDS_SECOND
MILLISECONDS_HOUR == 60 * MILLISECONDS_MINUTE
MILLISECONDS_DAY == 24 * MILLISECONDS_HOUR

\* The % of the source: the remainder has the sign of the dividend.
Rem(a, b) == IF a >= 0 THEN a % b ELSE 0 - ((0 - a) % b)

\* Math.floor(a / b) for b > 0.
Floor(a, b) == a \div b

days(ms) == Floor(ms, MILLISECONDS_DAY)

hours_ofTotal(ms) == Floor(ms, MILLISECONDS_HOUR)

hours(ms) == Floor(Rem(ms, MILLISECONDS_DAY), MILLISECONDS_HOUR)
minutes(ms) == Floor(Rem(ms, MILLISECONDS_HOUR), MILLISECONDS_MINUTE)
seconds(ms) == Floor(Rem(ms, MILLISECONDS_MINUTE), MILLISECONDS_SECOND)
milliseconds(ms) == Rem(ms, MILLISECONDS_SECOND)
\* totalDays is a computed ref of the days ref (line 97): the same value.
totalDays(ms) == days(ms)
totalHours(ms) == Floor(ms, MILLISECONDS_HOUR)
totalMinutes(ms) == Floor(ms, MILLISECONDS_MINUTE)
totalSeconds(ms) == Floor(ms, MILLISECONDS_SECOND)

\* The object the template binds to the slot, each ref by its value.
Breakdown(ms) ==
    [days |-> days(ms), hours |-> hours(ms), minutes |-> minutes(ms),
     seconds |-> seconds(ms), milliseconds |-> milliseconds(ms),
     totalDays |-> totalDays(ms), totalHours |-> totalHours(ms),
     totalMinutes |-> totalMinutes(ms), totalSeconds |-> totalSeconds(ms),
     totalMilliseconds |-> ms]

\* ------------------------------------------------------ state and actions
\* The engine's state after an operation; an operation that would request
\* more than MaxRequests frames or emit more than MaxEvents events is cut off.
Commit(s) ==
    /\ s.nextId <= MaxRequests + 1
    /\ Len(s.events) <= MaxEvents
    /\ data' = s.data
    /\ frames' = s.frames
    /\ nextId' = s.nextId
    /\ events' = s.events
    /\ slot' = Breakdown(s.data.totalMilliseconds)

InitWith(times, intervals) ==
    /\ time \in times
    /\ interval \in intervals
    /\ autoStart \in BOOLEAN
    /\ emitEvents \in BOOLEAN
    /\ data = [counting |-> FALSE, endTime |-> 0,
               totalMilliseconds |-> 0, requestId |-> 0]
    /\ frames = {}
    /\ nextId = 1
    /\ visibilityState \in {"visible", "hidden"}
    /\ phase = "created"
    /\ clock = 0
    /\ framed = FALSE
    /\ events = <<>>
    /\ slot = Breakdown(0)
    /\ disturbed = FALSE
    /\ resynced = 0

\* Props that pass the validators of lines 61 and 74.
Init == InitWith({t \in -1 .. MaxTime : validator(t)},
                 {i \in -1 .. MaxInterval : validator(i)})

\* Props as the caller may pass them: a failing validator does not reject.
InitUnvalidated == InitWith(-1 .. MaxTime, -1 .. MaxInterval)

\* Times that reach every unit of the breakdown, ticked down by 1.
BreakdownTimes ==
    {0, 999, 1000, 59999, 60000, 90125, 3599999, 3600000, 86399999,
     86400000, 90061001, 2 * 24 * 60 * 60 * 1000}

InitBreakdown == InitWith(BreakdownTimes, {1})

\* The body of the watchEffect callback, with the props setup destructured.
configure(s) ==
    LET s1 == [s EXCEPT !.data.totalMilliseconds = time,
                        !.data.endTime = now + time]
    IN  IF autoStart THEN start(s1) ELSE s1

\* The watchEffect callback, run once by setup.
WatchEffect ==
    /\ phase = "created"
    /\ Commit(configure(Engine))
    /\ phase' = "configured"
    /\ UNCHANGED <<props, visibilityState, clock, framed, disturbed, resynced>>

OnMounted ==
    /\ phase = "configured"
    /\ phase' = "mounted"
    /\ UNCHANGED <<props, data, slot, host, visibilityState, clock, framed, events,
                   disturbed, resynced>>

OnBeforeUnmount_withoutPause ==
    /\ phase = "mounted"
    /\ phase' = "unmounted"
    /\ disturbed' = TRUE
    /\ UNCHANGED <<props, data, slot, host, events, visibilityState, clock,
                   framed, resynced>>

OnBeforeUnmount ==
    /\ phase = "mounted"
    /\ phase' = "unmounted"
    /\ Commit(pause(Engine))
    /\ disturbed' = TRUE
    /\ UNCHANGED <<props, visibilityState, clock, framed, resynced>>

Start ==
    /\ phase = "mounted"
    /\ Commit(start(Engine))
    /\ UNCHANGED <<props, visibilityState, phase, clock, framed,
                   disturbed, resynced>>

Abort ==
    /\ phase = "mounted"
    /\ Commit(abort(Engine))
    /\ disturbed' = TRUE
    /\ UNCHANGED <<props, visibilityState, phase, clock, framed,
                   resynced>>

End ==
    /\ phase = "mounted"
    /\ Commit(end(Engine))
    /\ disturbed' = TRUE
    /\ UNCHANGED <<props, visibilityState, phase, clock, framed,
                   resynced>>

\* The document becomes visible; the listener runs while it is attached.
Visible ==
    /\ phase \in {"mounted", "unmounted"}
    /\ visibilityState = "hidden"
    /\ visibilityState' = "visible"
    /\ IF phase = "mounted"
       THEN /\ Commit(continuance(update(Engine)))
            /\ resynced' = update(Engine).data.totalMilliseconds
       ELSE UNCHANGED <<data, slot, host, events, resynced>>
    /\ disturbed' = TRUE
    /\ UNCHANGED <<props, phase, clock, framed>>

\* The document becomes hidden; the listener runs while it is attached.
Hidden ==
    /\ phase \in {"mounted", "unmounted"}
    /\ visibilityState = "visible"
    /\ visibilityState' = "hidden"
    /\ IF phase = "mounted"
       THEN Commit(pause(Engine))
       ELSE UNCHANGED <<data, slot, host, events>>
    /\ disturbed' = TRUE
    /\ UNCHANGED <<props, phase, clock, framed, resynced>>

\* The host runs a pending frame callback.
Step ==
    /\ phase \in {"mounted", "unmounted"}
    /\ ~framed
    /\ \E f \in frames : Commit(step(Engine, f, frameTimestamp))
    /\ framed' = TRUE
    /\ UNCHANGED <<props, visibilityState, phase, clock, disturbed,
                   resynced>>

Tick ==
    /\ phase \in {"mounted", "unmounted"}
    /\ clock < MaxClock
    /\ clock' = clock + 1
    /\ framed' = FALSE
    /\ UNCHANGED <<props, data, slot, host, visibilityState, phase, events,
                   disturbed, resynced>>

\* The watchEffect callback run again on the mounted component.
Reconfigure ==
    /\ phase = "mounted"
    /\ Commit(configure(Engine))
    /\ disturbed' = TRUE
    /\ UNCHANGED <<props, visibilityState, phase, clock, framed, resynced>>

Next ==
    \/ WatchEffect
    \/ OnMounted
    \/ OnBeforeUnmount
    \/ Start
    \/ Abort
    \/ End
    \/ Visible
    \/ Hidden
    \/ Step
    \/ Tick

Spec == Init /\ [][Next]_vars

SpecUnvalidated == InitUnvalidated /\ [][Next]_vars

SpecBreakdown == InitBreakdown /\ [][Next]_vars

SpecReconfigure == Init /\ [][Next \/ Reconfigure]_vars

\* The host delivers a frame in every unit of time: time passes only once
\* the pending callback, if any, has run.
TickLive ==
    /\ frames = {} \/ framed
    /\ Tick

\* The engine left to run: started, hidden and shown, never aborted, ended by
\* hand or unmounted.
NextLive ==
    \/ WatchEffect
    \/ OnMounted
    \/ Start
    \/ Visible
    \/ Hidden
    \/ Step
    \/ TickLive

\* requestAnimationFrame callbacks are eventually run, and time passes.
SpecLive ==
    /\ Init
    /\ [][NextLive]_vars
    /\ WF_vars(Step)
    /\ WF_vars(TickLive)

\* ================================================================ claims
EventName(e) == e[1]
EventNames == [i \in 1 .. Len(events) |-> EventName(events[i])]
CountOf(log, name) == Cardinality({i \in 1 .. Len(log) : EventName(log[i]) = name})
LastEvent == IF events = <<>> THEN "none" ELSE EventName(events[Len(events)])
Closing == {"abort", "end"}

\* A run that was started once while visible, was never disturbed by abort(),
\* end(), a visibility change or unmount, and has emitted its end event.
CompletedRun ==
    /\ emitEvents
    /\ interval > 0
    /\ phase = "mounted"
    /\ ~disturbed
    /\ visibilityState = "visible"
    /\ CountOf(events, "start") = 1
    /\ LastEvent = "end"

RunShape(n) ==
    /\ Len(events) = n + 2
    /\ EventName(events[1]) = "start"
    /\ \A i \in 2 .. n + 1 : EventName(events[i]) = "progress"
    /\ EventName(events[n + 2]) = "end"

\* C1 as stated: a completed undisturbed run emits exactly
\* floor(time / interval) progress events, followed by one end event.
C1_FloorProgressEvents ==
    CompletedRun => RunShape(time \div interval)

\* C1 amended: a completed undisturbed run emits one progress event per step
\* that leaves the remaining time positive, that is floor((time - 1) / interval)
\* of them for time > 0 and none for time = 0, followed by one end event.
C1_PositiveStepsProgressEvents ==
    CompletedRun =>
        RunShape(IF time = 0 THEN 0 ELSE (time - 1) \div interval)

\* C1 witness: a completed run whose interval divides its time, with progress.
C1_Witness ==
    /\ CompletedRun
    /\ time % interval = 0
    /\ CountOf(events, "progress") >= 1

\* C2: the emitted events are well-formed: every progress, abort and end event
\* has an earlier start event with no abort or end between the two, every start
\* event is followed by at most one abort or end event before the next start,
\* and the event after an end event, if any, is a start event.
C2_EventsWellFormed ==
    /\ \A i \in 1 .. Len(events) :
           EventNames[i] \in {"progress", "abort", "end"} =>
               \E j \in 1 .. i - 1 :
                   /\ EventNames[j] = "start"
                   /\ \A k \in j + 1 .. i - 1 : EventNames[k] \notin Closing
    /\ \A j \in 1 .. Len(events) :
           EventNames[j] = "start" =>
               Cardinality({k \in j + 1 .. Len(events) :
                   /\ EventNames[k] \in Closing
                   /\ \A m \in j + 1 .. k - 1 : EventNames[m] # "start"}) <= 1
    /\ \A i \in 1 .. Len(events) - 1 :
           EventNames[i] = "end" => EventNames[i + 1] = "start"

\* C2 witness: a log with a tick, an abort, a second start and an end.
C2_Witness ==
    /\ Len(events) = 5
    /\ EventNames = <<"start", "progress", "abort", "start", "end">>

\* C3: a start() that takes the engine from Idle to Counting sets
\* endTime to now() plus the remaining time.
C3_StartSetsEndTime ==
    [][(Start /\ ~data.counting /\ data'.counting) =>
           data'.endTime = now + data.totalMilliseconds]_vars

\* C4: the visibility listener running for a visible document resyncs a
\* Counting engine to max(0, endTime - now()), which is then the remaining
\* time unless the interval is 0 and the countdown ends at once; it leaves the
\* remaining time of an Idle engine unchanged.
C4_VisibleResync ==
    [][(Visible /\ phase = "mounted") =>
           IF data.counting
           THEN /\ resynced' = Max(0, data.endTime - now)
                /\ interval > 0 => data'.totalMilliseconds = resynced'
           ELSE data'.totalMilliseconds = data.totalMilliseconds]_vars

\* C4 witness: a run started at time 0 that was hidden before its first tick
\* and is visible again at least two intervals later, with time remaining.
C4_Witness ==
    /\ phase = "mounted"
    /\ visibilityState = "visible"
    /\ disturbed
    /\ data.counting
    /\ interval > 0
    /\ events = << <<"start">> >>
    /\ data.endTime = time
    /\ resynced = time - clock
    /\ data.totalMilliseconds = resynced
    /\ resynced > 0
    /\ clock >= 2 * interval
    /\ frames # {}

Emitted(log, names) ==
    IF emitEvents THEN log \o [i \in 1 .. Len(names) |-> <<names[i]>>] ELSE log

\* abort() while Counting with time remaining emits abort only, keeps the
\* remaining time and returns to Idle.
AbortKeepsRemaining ==
    (Abort /\ data.counting /\ data.totalMilliseconds > 0) =>
        /\ events' = Emitted(events, <<"abort">>)
        /\ data'.totalMilliseconds = data.totalMilliseconds
        /\ ~data'.counting

\* Once configured, nothing but start() changes the remaining time of an Idle
\* engine.
IdleKeepsRemaining ==
    (/\ phase # "created"
     /\ ~data.counting
     /\ data'.totalMilliseconds # data.totalMilliseconds) => Start

\* A tick takes the interval off the remaining time, or ends the countdown.
TickTakesInterval ==
    (Step /\ data'.totalMilliseconds # data.totalMilliseconds) =>
        data'.totalMilliseconds \in {data.totalMilliseconds - interval, 0}

AfterAbort == emitEvents /\ LastEvent = "abort" /\ data.totalMilliseconds > 0

\* C5 as stated: abort() keeps the remaining time r > 0 and emits abort only,
\* the remaining time stays r until the next start(), and that start() leaves
\* the engine Counting with r remaining.
C5_AbortThenStartResumes ==
    [][/\ AbortKeepsRemaining
       /\ IdleKeepsRemaining
       /\ (Start /\ AfterAbort) =>
              /\ data'.counting
              /\ data'.totalMilliseconds = data.totalMilliseconds]_vars

\* C5 amended: as stated, but the start() after the abort resumes from r only
\* when it does not end the countdown at once, which it does for a visible
\* document and interval 0; resumed for a visible document, it schedules the
\* tick for min(r, interval), and every tick takes the interval off.
C5_AbortThenStartResumesOrEnds ==
    [][/\ AbortKeepsRemaining
       /\ IdleKeepsRemaining
       /\ TickTakesInterval
       /\ (Start /\ ~data.counting /\ data.totalMilliseconds > 0) =>
              IF visibilityState = "visible" /\ interval = 0
              THEN /\ ~data'.counting
                   /\ data'.totalMilliseconds = 0
                   /\ events' = Emitted(events, <<"start", "end">>)
              ELSE /\ data'.counting
                   /\ data'.totalMilliseconds = data.totalMilliseconds
                   /\ events' = Emitted(events, <<"start">>)
                   /\ frames' =
                          IF visibilityState = "visible"
                          THEN {[id |-> nextId, init |-> 0, prev |-> 0,
                                 delay |-> Min(data.totalMilliseconds, interval)]}
                          ELSE {}]_vars

\* C5 witness: a run aborted after its first tick and started again, whose
\* next tick carries on from the remaining time the abort left.
C5_Witness ==
    /\ Len(events) = 5
    /\ EventNames = <<"start", "progress", "abort", "start", "progress">>
    /\ events[5][2] = events[2][2] - interval
    /\ data.counting
    /\ data.totalMilliseconds = events[5][2]

\* C6: start() is idempotent: after a start() that leaves the engine Counting,
\* a second start() changes neither the engine state nor the pending callback
\* nor the emitted events, and the two calls emit one start event.
C6_StartIdempotent ==
    [][(Start /\ data'.counting) =>
           /\ start(Engine') = Engine'
           /\ CountOf(start(Engine').events, "start")
                  = CountOf(events, "start")
                        + (IF emitEvents /\ ~data.counting THEN 1 ELSE 0)]_vars

\* C6 witness: the engine just started by a start() call, its first callback
\* pending.
C6_Witness ==
    /\ phase = "mounted"
    /\ ~autoStart
    /\ events = << <<"start">> >>
    /\ data.counting
    /\ Cardinality(frames) = 1

\* C7: with a negative time or interval the engine is never Counting and
\* never emits start.
C7_InvalidPropsRejected ==
    (~validator(time) \/ ~validator(interval)) =>
        /\ ~data.counting
        /\ CountOf(events, "start") = 0

\* C8: the remaining time is never negative, in the state and in every
\* progress payload.
C8_RemainingNonNegative ==
    /\ data.totalMilliseconds >= 0
    /\ \A i \in 1 .. Len(events) :
           EventNames[i] = "progress" => events[i][2] >= 0

\* C8 witness: a completed run whose time is not a multiple of its interval.
C8_Witness ==
    /\ CompletedRun
    /\ time % interval # 0
    /\ time > interval
    /\ data.totalMilliseconds = 0

\* C9: after configuration no operation leaves the remaining time larger
\* than it was before the operation.
C9_RemainingNeverIncreases ==
    [][phase = "mounted" =>
           data'.totalMilliseconds <= data.totalMilliseconds]_vars

\* A start of an Idle engine with min(remaining, interval) = 0, by start() or
\* by the watchEffect callback with autoStart.
StartAtZeroDelay ==
    \/ Start /\ ~data.counting /\ Min(data.totalMilliseconds, interval) = 0
    \/ WatchEffect /\ autoStart /\ Min(time, interval) = 0

EndedAtOnce ==
    /\ ~data'.counting
    /\ data'.totalMilliseconds = 0
    /\ frames' = {}
    /\ events' = Emitted(events, <<"start", "end">>)

\* C10 as stated: a start with min(remaining, interval) = 0 emits start and
\* end and no progress, and leaves the engine Idle with nothing remaining.
C10_ZeroDelayEndsAtOnce ==
    [][StartAtZeroDelay => EndedAtOnce]_vars

\* C10 amended: that holds for a start while the document is visible; a start
\* while it is hidden emits start only and leaves the engine Counting.
C10_ZeroDelayEndsAtOnceWhenVisible ==
    [][StartAtZeroDelay =>
           IF visibilityState = "visible"
           THEN EndedAtOnce
           ELSE /\ data'.counting
                /\ frames' = {}
                /\ events' = Emitted(events, <<"start">>)]_vars

\* C10 witness: interval 0 with time to count down, started and ended at once.
C10_Witness ==
    /\ interval = 0
    /\ time > 0
    /\ visibilityState = "visible"
    /\ ~disturbed
    /\ events = << <<"start">>, <<"end">> >>
    /\ ~data.counting
    /\ data.totalMilliseconds = 0

\* The events an operation has added to the log.
NewEvents == SubSeq(events', Len(events) + 1, Len(events'))

\* C11: every progress event carries a strictly positive totalMilliseconds,
\* and an operation that takes the remaining time from above 0 to 0 emits no
\* progress event and, when it emits, ends with the end event.
C11_ProgressStrictlyPositive ==
    /\ [](\A i \in 1 .. Len(events) :
            EventNames[i] = "progress" => events[i][2] > 0)
    /\ [][(data.totalMilliseconds > 0 /\ data'.totalMilliseconds = 0) =>
              /\ CountOf(NewEvents, "progress") = 0
              /\ emitEvents =>
                     EventName(NewEvents[Len(NewEvents)]) = "end"]_vars

\* C11 witness: a completed run of two intervals: one progress event for the
\* first step, none for the step that reached 0.
C11_Witness ==
    /\ CompletedRun
    /\ time = 2 * interval
    /\ events = << <<"start">>, <<"progress", interval>>, <<"end">> >>
    /\ data.totalMilliseconds = 0

\* C12: in a run with no abort, end(), visibility change or unmount, the
\* k-th progress event carries time - k * interval.
C12_ProgressPayloads ==
    ~disturbed =>
        \A i \in 1 .. Len(events) :
            EventNames[i] = "progress" =>
                events[i][2] =
                    time - interval * CountOf(SubSeq(events, 1, i), "progress")

\* C12 witness: an undisturbed run that has emitted two progress events.
C12_Witness ==
    /\ ~disturbed
    /\ CountOf(events, "progress") = 2
    /\ events[2] = <<"progress", time - interval>>
    /\ events[3] = <<"progress", time - 2 * interval>>

\* floor(ms / unit) = q, stated without division.
IsFloor(q, ms, unit) == q * unit <= ms /\ ms < (q + 1) * unit

C14_HiddenSuspendsTicks ==
    /\ [][Hidden =>
             /\ frames' = {}
             /\ data'.counting = data.counting
             /\ data'.totalMilliseconds = data.totalMilliseconds
             /\ events' = events]_vars
    /\ [](visibilityState = "hidden" => frames = {})
    /\ [][(phase # "created" /\ visibilityState = "hidden"
              /\ visibilityState' = "hidden") =>
             /\ CountOf(NewEvents, "progress") = 0
             /\ ~End => data'.totalMilliseconds = data.totalMilliseconds]_vars

\* C14 witness: a frame was pending when the document became hidden; the
\* countdown was aborted and started again while hidden, time has passed,
\* and no frame is pending and nothing was ticked off.
C14_Witness ==
    /\ visibilityState = "hidden"
    /\ phase = "mounted"
    /\ events = << <<"start">>, <<"abort">>, <<"start">> >>
    /\ data.counting
    /\ data.requestId = 1
    /\ nextId = 2
    /\ frames = {}
    /\ clock >= 2
    /\ data.totalMilliseconds = time

\* C15: in every reachable state at most one frame callback is pending, and
\* the handle the engine stores (data.requestId) is the id of that callback,
\* so pause() leaves none pending.
C15_OnePendingFrame ==
    /\ Cardinality(frames) <= 1
    /\ \A f \in frames : f.id = data.requestId
    /\ pause(Engine).frames = {}

\* C15 witness: after a hide, a show and a rescheduling step the one pending
\* callback is the third requested and the stored handle names it.
C15_Witness ==
    /\ Cardinality(frames) = 1
    /\ data.requestId = 3
    /\ nextId = 4
    /\ \E f \in frames : f.id = 3 /\ f.prev # 0
    /\ disturbed
    /\ data.counting

\* The run from here fits the bounds of the model: a loop of delay d takes
\* at most d + 1 units of time and d + 1 requests, and emits one event.
Horizon ==
    /\ clock + 2 * data.totalMilliseconds + 1 <= MaxClock
    /\ nextId + 2 * data.totalMilliseconds <= MaxRequests + 1
    /\ Len(events) + data.totalMilliseconds <= MaxEvents

Done ==
    /\ ~data.counting
    /\ data.totalMilliseconds = 0
    /\ emitEvents => Len(events) > 0 /\ EventName(events[Len(events)]) = "end"

\* C16: a mounted engine that is Counting with the document visible, whose
\* frame callbacks keep running as time passes, eventually is Idle with no
\* remaining time and has emitted end, unless the document is hidden again
\* first; so once the document stays visible the countdown completes.
C16_CountingCompletes ==
    [](( /\ phase = "mounted"
         /\ data.counting
         /\ visibilityState = "visible"
         /\ Horizon )
         => <>(Done \/ visibilityState = "hidden"))

\* C16 witness: a countdown that was hidden and shown again after its first
\* tick has completed.
C16_Witness ==
    /\ Done
    /\ disturbed
    /\ visibilityState = "visible"
    /\ Len(events) >= 3
    /\ EventName(events[1]) = "start"
    /\ EventName(events[2]) = "progress"
    /\ EventName(events[Len(events)]) = "end"
    /\ nextId >= 5


\* What a freshly constructed engine holds after its configuration, with the
\* frame it requests.
Fresh ==
    configure([data |-> [counting |-> FALSE, endTime |-> 0,
                         totalMilliseconds |-> 0, requestId |-> 0],
               frames |-> {}, nextId |-> nextId, events |-> events])

\* C17: a reconfiguration while Counting with a callback pending cancels
\* that callback and leaves counting, the remaining time and endTime as a
\* freshly configured engine has them, so no callback requested under the
\* old configuration remains to fire.
C17_ReconfigureResets ==
    [][(Reconfigure /\ data.counting /\ frames # {}) =>
          /\ frames \cap frames' = {}
          /\ data'.counting = Fresh.data.counting
          /\ data'.totalMilliseconds = Fresh.data.totalMilliseconds
          /\ data'.endTime = Fresh.data.endTime]_vars

\* C18: unmounting cancels the pending frame callback in whatever state the
\* engine is, and afterwards no frame callback is pending, no visibility
\* change requests one, and the engine's state and its events stay as they
\* were.
C18_DisposeStopsEngine ==
    /\ [][OnBeforeUnmount =>
             /\ frames' = {}
             /\ data' = data
             /\ events' = events]_vars
    /\ [](phase = "unmounted" => frames = {})
    /\ [][phase = "unmounted" =>
             /\ frames' = {}
             /\ nextId' = nextId
             /\ data' = data
             /\ events' = events]_vars

\* C18 witness: a Counting engine unmounted with its first frame pending; time
\* has passed, the document is visible, and nothing was requested or emitted
\* after the start.
C18_Witness ==
    /\ phase = "unmounted"
    /\ visibilityState = "visible"
    /\ data.counting
    /\ data.totalMilliseconds = time
    /\ data.requestId = 1
    /\ nextId = 2
    /\ frames = {}
    /\ events = << <<"start">> >>
    /\ clock = MaxClock

\* C19: every pending callback has delay > 0, and a callback run at time t
\* with init and prev of its loop ticks (the remaining time drops by
\* interval, or to 0) exactly when t - init >= delay or
\* (t - init) + (t - prev) / 2 >= delay; otherwise it requests exactly one
\* further callback of the same loop and leaves the remaining time and the
\* events as they were. The first callback of a loop never ticks.
C19_StepFiresExactlyWhenDue ==
    /\ [](\A f \in frames : f.delay > 0 /\ interval > 0)
    /\ [][Step =>
             \A f \in frames :
                 LET t    == clock + 1
                     init == IF f.init = 0 THEN t ELSE f.init
                     prev == IF f.prev = 0 THEN t ELSE f.prev
                 IN  IF \/ t - init >= f.delay
                        \/ 2 * (t - init) + (t - prev) >= 2 * f.delay
                     THEN /\ f.init # 0
                          /\ data'.totalMilliseconds =
                                 Max(0, data.totalMilliseconds - interval)
                          /\ data'.totalMilliseconds < data.totalMilliseconds
                          /\ f \notin frames'
                     ELSE /\ data' = [data EXCEPT !.requestId = nextId]
                          /\ events' = events
                          /\ frames' = {[id |-> nextId, delay |-> f.delay,
                                         init |-> init, prev |-> t]}]_vars

\* C19 witness: with interval 3 the first callback ran at time 1, the frame
\* at time 2 was skipped, and the callback at time 3 ticked on
\* 2 + (3 - 1) / 2 >= 3; its successor has run once and rescheduled.
C19_Witness ==
    /\ interval = 3
    /\ time = 4
    /\ ~disturbed
    /\ events = << <<"start">>, <<"progress", 1>> >>
    /\ clock = 3
    /\ \E f \in frames : f.delay = 1 /\ f.init = 4 /\ f.prev = 4

\* C20: an Idle engine has no frame callback pending, and a step taken from
\* an Idle state of the configured engine leaves the remaining time as it
\* was unless it is a start() or a run of the configuration callback.
C20_IdleIsQuiet ==
    /\ [](~data.counting => frames = {})
    /\ [][(~data.counting /\ phase # "created" /\ ~Start) =>
             data'.totalMilliseconds = data.totalMilliseconds]_vars

\* C20 witness: an engine aborted after its first tick with a callback
\* pending is Idle with none pending, and time has passed since.
C20_Witness ==
    /\ ~data.counting
    /\ phase = "mounted"
    /\ visibilityState = "visible"
    /\ EventNames = <<"start", "progress", "abort">>
    /\ data.totalMilliseconds = events[2][2]
    /\ data.requestId = nextId - 1
    /\ frames = {}
    /\ clock = MaxClock

====
